---- MODULE Spec2Model ----
(***************************************************************************)
(* A model of cpp-sort's spreadsort float_sort entry points, the float to  *)
(* integer cast they rest on, the size-2 and size-31 sorting networks and  *)
(* the self_sort_adapter test case.                                        *)
(*                                                                         *)
(* A floating-point element is its object representation: a bit pattern    *)
(* of Width bits (1 sign bit, ExpBits exponent bits, MantBits mantissa     *)
(* bits), a scaled-down IEEE 754 binary format with signed zeros,          *)
(* subnormals, infinities and NaNs.                                        *)
(***************************************************************************)
EXTENDS Integers, Sequences, FiniteSets

VARIABLES range, input, pc, call, trace

vars == <<range, input, pc, call, trace>>

\* ------------------------------------------------------------------ bounds

\* Exponent and mantissa widths of the modelled IEEE format.
ExpBits == 2

MantBits == 1

\* Longest range handed to float_sort.
MaxLen == 4

\* Largest collection handed to the self_sort_adapter test.
MaxColl == 5

\* ------------------------------------------------- IEEE 754 element type

Pow2(n) == 2 ^ n

Width == 1 + ExpBits + MantBits

Patterns == 0 .. (Pow2(Width) - 1)

SignBit(x) == x \div Pow2(Width - 1)

ExpField(x) == (x % Pow2(Width - 1)) \div Pow2(MantBits)

MantField(x) == x % Pow2(MantBits)

ExpMax == Pow2(ExpBits) - 1

IsNaN(x) == ExpField(x) = ExpMax /\ MantField(x) # 0

\* The magnitude of a non-NaN pattern, scaled by a fixed power of two so that
\* it is an integer: subnormals m, normals (2^MantBits + m) * 2^(e-1), and the
\* infinity above every finite value.
Magnitude(x) ==
    IF ExpField(x) = 0
    THEN MantField(x)
    ELSE (Pow2(MantBits) + MantField(x)) * Pow2(ExpField(x) - 1)

FloatValue(x) == IF SignBit(x) = 1 THEN 0 - Magnitude(x) ELSE Magnitude(x)

\* operator< and operator== of the element type: false on NaN operands, and
\* +0.0 == -0.0.
FloatLess(a, b) == ~IsNaN(a) /\ ~IsNaN(b) /\ FloatValue(a) < FloatValue(b)

FloatEq(a, b) == ~IsNaN(a) /\ ~IsNaN(b) /\ FloatValue(a) = FloatValue(b)

PosZero == 0

NegZero == Pow2(Width - 1)

\* ------------------------------------------------------- float_mem_cast

\* The copy stops one bit short of the object's size: the sign bit is lost.
float_mem_cast_short(data) == data % Pow2(Width - 1)

\* memcpy of the object representation into a same-sized signed integer
\* (two's complement).
float_mem_cast(data) ==
    IF data >= Pow2(Width - 1) THEN data - Pow2(Width) ELSE data

\* Key Extraction as section 3 of the specification words it, on the unsigned
\* reinterpretation: sign bit set, invert all other bits (the sign bit stays);
\* sign bit clear, flip only the sign bit.
key_as_worded(x) ==
    LET c == float_mem_cast(x)
    IN  IF c < 0
        THEN Pow2(Width - 1) + ((0 - 1) - c)
        ELSE c + Pow2(Width - 1)

\* Key Extraction as section 4.1 requires it, an order-preserving unsigned
\* key, built on float_mem_cast: a negative cast has all its bits inverted, a
\* non-negative one has its sign bit flipped.
sort_key(x) ==
    LET c == float_mem_cast(x)
    IN  IF c < 0 THEN (0 - 1) - c ELSE c + Pow2(Width - 1)

\* ------------------------------------------------------------ comparators

\* std::less<> and std::greater<> on the floating-point elements, and on the
\* ints of the networks and of the self-sortable collection.
Compare(c, a, b) ==
    CASE c = "less" -> FloatLess(a, b)
      [] c = "greater" -> FloatLess(b, a)
      [] c = "int_less" -> a < b
      [] c = "int_greater" -> b < a

\* std::is_sorted: no element compares less than its predecessor.
is_sorted(s, c) == \A i \in 1 .. (Len(s) - 1) : ~Compare(c, s[i + 1], s[i])

\* The number of positions of s holding x.
Count(s, x) == Cardinality({i \in 1 .. Len(s) : s[i] = x})

SameMultiset(s, t) ==
    /\ Len(s) = Len(t)
    /\ \A i \in 1 .. Len(s) : Count(s, s[i]) = Count(t, s[i])

\* ------------------------------------------- fallback comparison sort

\* Where x stops when it is moved down from the end of the sorted prefix s:
\* past every element it compares less than, up to the first it does not.
RECURSIVE insert_pos(_, _, _, _)
insert_pos(s, x, j, c) ==
    IF j = 0 \/ ~Compare(c, x, s[j]) THEN j ELSE insert_pos(s, x, j - 1, c)

insert(s, x, c) ==
    LET j == insert_pos(s, x, Len(s), c)
    IN  SubSeq(s, 1, j) \o <<x>> \o SubSeq(s, j + 1, Len(s))

RECURSIVE insertion_sort(_, _, _)
insertion_sort(s, n, c) ==
    IF n = 0 THEN <<>> ELSE insert(insertion_sort(s, n - 1, c), s[n], c)

\* pdqsort with the identity projection. Below its insertion sort threshold,
\* which every range of this model is, it is an insertion sort.
pdqsort(s, c) == insertion_sort(s, Len(s), c)

\* ------------------------------------------------- Right-Shift Abstraction

\* The right-shift functors a caller passes: "default" composes Key Extraction
\* with a logical right shift; "reversed" shifts the complemented key and
\* goes with a descending comparator.
RshiftFunctors == {"default", "reversed"}

rshift(rs, x, offset) ==
    IF rs = "default"
    THEN sort_key(x) \div Pow2(offset)
    ELSE (Pow2(Width) - 1 - sort_key(x)) \div Pow2(offset)

\* A functor is monotonic consistent with the ordering it is used with.
Consistent(rs, c) ==
    \/ rs = "default" /\ c = "less"
    \/ rs = "reversed" /\ c = "greater"

\* ------------------------------------------------ tuning constants

\* Ranges shorter than this go to the fallback comparison sort.
min_sort_size == 3

\* The most bits one distribution pass consumes.
max_splits == 2

\* ------------------------------------- Bucket Distribution Engine

SetMin(S) == CHOOSE m \in S : \A x \in S : m <= x

SetMax(S) == CHOOSE m \in S : \A x \in S : x <= m

\* logRange: the number of significant bits of a spread.
RECURSIVE rough_log_2_size(_)
rough_log_2_size(v) == IF v = 0 THEN 0 ELSE 1 + rough_log_2_size(v \div 2)

RshiftValues(s, rs) == {rshift(rs, s[i], 0) : i \in 1 .. Len(s)}

\* One level of the engine on the sub-range s whose rshift values span lo..hi:
\* tally and place every element in the bucket of its top bits, buckets in
\* ascending order, then finish each bucket of more than one element: nothing
\* left to discriminate at offset 0, the fallback sort below the minimum sort
\* size, another level otherwise. The second delegation of section 4.3
\* (distribution not worthwhile) ends in the same fallback sort; its threshold
\* is a tuning formula the specification leaves open and is not modelled.
RECURSIVE float_sort_rec(_, _, _, _, _)
float_sort_rec(s, lo, hi, rs, c) ==
    IF hi = lo
    THEN s
    ELSE
        LET log_range == rough_log_2_size(hi - lo)
            log_divisor ==
                IF log_range > max_splits THEN log_range - max_splits ELSE 0
            div_min == lo \div Pow2(log_divisor)
            div_max == hi \div Pow2(log_divisor)
            bucket(b) ==
                LET InBucket(x) == rshift(rs, x, log_divisor) - div_min = b
                IN  SelectSeq(s, InBucket)
            finish(t) ==
                IF Len(t) < 2 \/ log_divisor = 0
                THEN t
                ELSE IF Len(t) < min_sort_size
                     THEN pdqsort(t, c)
                     ELSE float_sort_rec(t, SetMin(RshiftValues(t, rs)),
                                         SetMax(RshiftValues(t, rs)), rs, c)
            RECURSIVE placed(_)
            placed(b) ==
                IF b > div_max - div_min
                THEN <<>>
                ELSE finish(bucket(b)) \o placed(b + 1)
        IN  placed(0)

\* detail::float_sort: the range estimate starts from the seed, the rshift
\* value of the first element at offset 0.
detail_float_sort(s, seed, rs, c) ==
    float_sort_rec(s, SetMin(RshiftValues(s, rs) \cup {seed}),
                   SetMax(RshiftValues(s, rs) \cup {seed}), rs, c)

\* ------------------------------------------------- Top-Level Driver

\* What one call leaves behind: the range, whether the distribution engine
\* was entered, and the seeds rshift(*first, 0) the driver itself evaluated.
Outcome(out, engine, seed) == [out |-> out, engine |-> engine, seed |-> seed]

\* The small-input branch returns without sorting.
float_sort_small_unsorted(s) ==
    IF Len(s) < min_sort_size
    THEN Outcome(s, FALSE, <<>>)
    ELSE Outcome(detail_float_sort(s, rshift("default", s[1], 0),
                                   "default", "less"), TRUE, <<>>)

\* The size test is off by one: a range one short of the minimum sort size
\* goes to the engine.
float_sort_off_by_one(s) ==
    IF Len(s) < min_sort_size - 1
    THEN Outcome(pdqsort(s, "less"), FALSE, <<>>)
    ELSE Outcome(detail_float_sort(s, rshift("default", s[1], 0),
                                   "default", "less"), TRUE, <<>>)

\* float_sort(first, last): the engine runs the default Key Extraction
\* pipeline and the default ordering.
float_sort(s) ==
    IF Len(s) < min_sort_size
    THEN Outcome(pdqsort(s, "less"), FALSE, <<>>)
    ELSE Outcome(detail_float_sort(s, rshift("default", s[1], 0),
                                   "default", "less"), TRUE, <<>>)

\* The seed is evaluated before the size test; *first of an empty range is
\* not an element.
float_sort_rshift_hoisted(s, rs) ==
    LET seed == IF Len(s) = 0 THEN "invalid" ELSE rshift(rs, s[1], 0)
    IN  IF Len(s) < min_sort_size
        THEN Outcome(pdqsort(s, "less"), FALSE, <<seed>>)
        ELSE Outcome(detail_float_sort(s, seed, rs, "less"), TRUE, <<seed>>)

\* float_sort(first, last, rshift)
float_sort_rshift(s, rs) ==
    IF Len(s) < min_sort_size
    THEN Outcome(pdqsort(s, "less"), FALSE, <<>>)
    ELSE Outcome(detail_float_sort(s, rshift(rs, s[1], 0), rs, "less"),
                 TRUE, <<rshift(rs, s[1], 0)>>)

\* The small-input branch is copied from the overload above and keeps its
\* std::less.
float_sort_rshift_comp_less(s, rs, comp) ==
    IF Len(s) < min_sort_size
    THEN Outcome(pdqsort(s, "less"), FALSE, <<>>)
    ELSE Outcome(detail_float_sort(s, rshift(rs, s[1], 0), rs, comp),
                 TRUE, <<rshift(rs, s[1], 0)>>)

\* The seed is stored through *first instead of being passed by value.
float_sort_rshift_comp_stored(s, rs, comp) ==
    IF Len(s) < min_sort_size
    THEN Outcome(pdqsort(s, comp), FALSE, <<>>)
    ELSE LET seed == rshift(rs, s[1], 0)
             t == [s EXCEPT ![1] = seed]
         IN  Outcome(detail_float_sort(t, seed, rs, comp), TRUE, <<seed>>)

\* float_sort(first, last, rshift, comp)
float_sort_rshift_comp(s, rs, comp) ==
    IF Len(s) < min_sort_size
    THEN Outcome(pdqsort(s, comp), FALSE, <<>>)
    ELSE Outcome(detail_float_sort(s, rshift(rs, s[1], 0), rs, comp),
                 TRUE, <<rshift(rs, s[1], 0)>>)

\* ----------------------------------------- specification: float_sort

MakeFloat(sign, e, m) == sign * Pow2(Width - 1) + e * Pow2(MantBits) + m

\* The elements of the ranges sorted: both zeros, the smallest subnormals,
\* the smallest normals, both infinities and a NaN.
Elems ==
    {PosZero, NegZero, MakeFloat(0, 0, 1), MakeFloat(1, 0, 1),
     MakeFloat(0, 1, 0), MakeFloat(1, 1, 0), MakeFloat(0, ExpMax, 0),
     MakeFloat(1, ExpMax, 0), MakeFloat(0, ExpMax, 1)}

Ranges == UNION {[1 .. n -> Elems] : n \in 0 .. MaxLen}

Init ==
    /\ range \in Ranges
    /\ input = range
    /\ pc = "start"
    /\ call = [overload |-> 0, rshift |-> "default", comp |-> "less"]
    /\ trace = Outcome(<<>>, FALSE, <<>>)

Returned(r, overload, rs, comp) ==
    /\ range' = r.out
    /\ trace' = r
    /\ call' = [overload |-> overload, rshift |-> rs, comp |-> comp]
    /\ pc' = "done"
    /\ UNCHANGED input

FloatSort ==
    /\ pc = "start"
    /\ Returned(float_sort(range), 1, "default", "less")

FloatSortRshift ==
    /\ pc = "start"
    /\ \E rs \in RshiftFunctors :
        /\ Consistent(rs, "less")
        /\ Returned(float_sort_rshift(range, rs), 2, rs, "less")

FloatSortRshiftComp ==
    /\ pc = "start"
    /\ \E rs \in RshiftFunctors, comp \in {"less", "greater"} :
        /\ Consistent(rs, comp)
        /\ Returned(float_sort_rshift_comp(range, rs, comp), 3, rs, comp)

Next == FloatSort \/ FloatSortRshift \/ FloatSortRshiftComp

Spec == Init /\ [][Next]_vars

\* --------------------------------------------------- claims: float_sort

Done == pc = "done"

HasNaN(s) == \E i \in 1 .. Len(s) : IsNaN(s[i])

\* The ordering a call sorts by: the supplied comparator, or std::less.
Ordering == IF call.overload = 3 THEN call.comp ELSE "less"

\* C1: when any of the three float_sort overloads returns, no adjacent pair
\* of the range is out of order: compare(range[i+1], range[i]) is false for
\* every i, compare being the supplied comparator or the default less-than.
C1_Sorted == Done => is_sorted(range, Ordering)

\* C1 witness: the comparator overload returned from the distribution engine
\* with a descending comparator, having moved elements.
C1_Witness ==
    /\ Done
    /\ call.overload = 3
    /\ call.comp = "greater"
    /\ trace.engine
    /\ range # input
    /\ ~is_sorted(input, "greater")

\* C2: after a call of any overload the range holds the multiset of elements
\* it held before, on the small-input path and on the distribution path.
C2_Permutation == Done => SameMultiset(input, range)

\* C2 witness: the distribution engine rearranged a range with a duplicate.
C2_Witness ==
    /\ Done
    /\ trace.engine
    /\ range # input
    /\ \E i, j \in 1 .. Len(input) : i < j /\ input[i] = input[j]

\* C3: below min_sort_size each overload leaves exactly what pdqsort leaves
\* on the same input, with std::less for the overloads without a comparator
\* and with comp for the overload taking one, and the engine is not entered.
C3_SmallInputIsPdqsort ==
    (Done /\ Len(input) < min_sort_size) =>
        /\ range = pdqsort(input, Ordering)
        /\ ~trace.engine

\* C3 witness: a range one short of min_sort_size was sorted by the
\* comparator overload, descending, and changed.
C3_Witness ==
    /\ Done
    /\ Len(input) = min_sort_size - 1
    /\ call.overload = 3
    /\ call.comp = "greater"
    /\ range # input

C9_SeedOnlyOnEnginePath ==
    (Done /\ call.overload \in {2, 3}) =>
        (Len(trace.seed) # 0 => Len(input) >= min_sort_size)

\* C9 witness: an overload taking rshift returned on the empty range.
C9_Witness ==
    /\ Done
    /\ call.overload = 2
    /\ input = <<>>
    /\ trace.seed = <<>>

\* ------------------------------------ specification: float_mem_cast

InitCast ==
    /\ range \in [1 .. 2 -> Patterns]
    /\ input = range
    /\ pc = "start"
    /\ call = [op |-> "float_mem_cast"]
    /\ trace = <<>>

\* Both elements are cast, and the keys are derived from the casts.
MemCast ==
    /\ pc = "start"
    /\ trace' = [cast |-> [i \in 1 .. 2 |-> float_mem_cast(range[i])],
                 worded |-> [i \in 1 .. 2 |-> key_as_worded(range[i])],
                 key |-> [i \in 1 .. 2 |-> sort_key(range[i])]]
    /\ pc' = "done"
    /\ UNCHANGED <<range, input, call>>

NextCast == MemCast

SpecCast == InitCast /\ [][NextCast]_vars

\* C4, as claimed: with the key worded as sign bit set, invert all other
\* bits, sign bit clear, flip only the sign bit, a < b gives key(a) < key(b)
\* for non-NaN a and b, and a == b gives key(a) == key(b), +0.0 and -0.0
\* included.
C4_KeyMonotonicAsWorded ==
    Done =>
        /\ FloatLess(range[1], range[2]) => trace.worded[1] < trace.worded[2]
        /\ FloatEq(range[1], range[2]) => trace.worded[1] = trace.worded[2]

\* C4, amended: float_mem_cast is injective on bit patterns; for non-NaN
\* a < b the casts ascend when both sign bits are clear, descend when both
\* are set, and a sign-set value casts below a sign-clear one. The key that
\* inverts all bits of a negative cast, the sign bit included, and flips only
\* the sign bit of a non-negative one is strictly monotonic on non-NaN
\* values and injective; +0.0 and -0.0, equal as floats, get the adjacent
\* keys key(-0.0) + 1 = key(+0.0), not equal ones.
C4_CastOrderAndKeyMonotonic ==
    Done =>
        LET a == range[1]
            b == range[2]
            ca == trace.cast[1]
            cb == trace.cast[2]
        IN  /\ (ca = cb) <=> (a = b)
            /\ (trace.key[1] = trace.key[2]) <=> (a = b)
            /\ FloatLess(a, b) =>
                /\ (SignBit(a) = 0 /\ SignBit(b) = 0) => ca < cb
                /\ (SignBit(a) = 1 /\ SignBit(b) = 1) => ca > cb
                /\ (SignBit(a) = 1 /\ SignBit(b) = 0) => ca < cb
                /\ SignBit(a) >= SignBit(b)
                /\ trace.key[1] < trace.key[2]
            /\ (a = NegZero /\ b = PosZero) => trace.key[1] + 1 = trace.key[2]

\* C4 witness: a negative and a positive finite value were cast, a < b.
C4_Witness ==
    /\ Done
    /\ SignBit(range[1]) = 1
    /\ SignBit(range[2]) = 0
    /\ FloatLess(range[1], range[2])
    /\ trace.cast[1] < 0

\* ------------------------------------------------- sorting networks

\* swap_if(x, y, compare) on first[i] and first[j]: swapped when
\* compare(y, x).
swap_if(s, i, j, c) ==
    IF Compare(c, s[j + 1], s[i + 1])
    THEN [s EXCEPT ![i + 1] = s[j + 1], ![j + 1] = s[i + 1]]
    ELSE s

\* sorting_network_sorter<N> on a sub-range: it leaves the sub-range sorted.
sorting_network_sorter(s, c) == insertion_sort(s, Len(s), c)

NetSize == 31

HalfSize == 16

\* The merge of sorting_network_sorter_impl<31u>: its swap_if calls in order,
\* each the pair of indices it is given.
merge31 ==
    <<<<0, 16>>, <<8, 24>>, <<8, 16>>, <<4, 20>>, <<12, 28>>, <<12, 20>>,
      <<4, 8>>, <<12, 16>>, <<20, 24>>, <<2, 18>>, <<10, 26>>, <<10, 18>>,
      <<6, 22>>, <<14, 30>>, <<14, 22>>, <<6, 10>>, <<14, 18>>, <<22, 26>>,
      <<2, 4>>, <<6, 8>>, <<10, 12>>, <<14, 16>>, <<18, 20>>, <<22, 24>>,
      <<26, 28>>, <<1, 17>>, <<9, 25>>, <<9, 17>>, <<5, 21>>, <<13, 29>>,
      <<13, 21>>, <<5, 9>>, <<13, 17>>, <<21, 25>>, <<3, 19>>, <<11, 27>>,
      <<11, 19>>, <<7, 23>>, <<15, 23>>, <<7, 11>>, <<15, 19>>, <<23, 27>>,
      <<3, 5>>, <<7, 9>>, <<11, 13>>, <<15, 17>>, <<19, 21>>, <<23, 25>>,
      <<27, 29>>, <<1, 2>>, <<3, 4>>, <<5, 6>>, <<7, 8>>, <<9, 10>>,
      <<11, 12>>, <<13, 14>>, <<15, 16>>, <<17, 18>>, <<19, 20>>, <<21, 22>>,
      <<23, 24>>, <<25, 26>>, <<27, 28>>, <<29, 30>>>>

\* The swap_if call of line 88 is given first[15u] and first[22u].
comparator_typo(k) == IF merge31[k] = <<15, 23>> THEN <<15, 22>> ELSE merge31[k]

\* The k-th swap_if call of the merge.
comparator(k) == merge31[k]

\* After a swap the next compare-and-swap is skipped.
next_comparator_skipping(k, swapped) == IF swapped THEN k + 2 ELSE k + 1

\* The statements run in sequence whatever the comparisons gave.
next_comparator(k, swapped) == k + 1

\* --------------------------------- specification: sorting networks

Comparators == {"int_less", "int_greater"}

\* A half of n elements holding z zeros and n - z ones, ascending or
\* descending.
ZeroOneHalf(n, z, ascending) ==
    [i \in 1 .. n |->
        IF ascending
        THEN (IF i <= z THEN 0 ELSE 1)
        ELSE (IF i <= n - z THEN 1 ELSE 0)]

\* The 31-element inputs: every pair of zero-one halves, and three
\* permutations of 0 .. 30.
Inputs31 ==
    {ZeroOneHalf(HalfSize, z1, d1) \o ZeroOneHalf(NetSize - HalfSize, z2, d2) :
        z1 \in 0 .. HalfSize, z2 \in 0 .. (NetSize - HalfSize),
        d1 \in BOOLEAN, d2 \in BOOLEAN}
    \cup {[i \in 1 .. NetSize |-> NetSize - i],
          [i \in 1 .. NetSize |-> (7 * i) % NetSize],
          [i \in 1 .. NetSize |-> (11 * i + 5) % NetSize]}

Inputs2 == [1 .. 2 -> 0 .. 2]

InitNet ==
    /\ range \in Inputs2 \cup Inputs31
    /\ input = range
    /\ pc = "start"
    /\ \E c \in Comparators : call = [comp |-> c, at |-> 1]
    /\ trace = <<>>

\* sorting_network_sorter_impl<2u>::operator()
Sort2 ==
    /\ pc = "start"
    /\ Len(range) = 2
    /\ range' = swap_if(range, 0, 1, call.comp)
    /\ trace' = Append(trace, <<0, 1>>)
    /\ pc' = "done"
    /\ UNCHANGED <<input, call>>

\* sorting_network_sorter_impl<31u>::operator(), its two sub-networks.
Sort31Halves ==
    /\ pc = "start"
    /\ Len(range) = NetSize
    /\ range' = sorting_network_sorter(SubSeq(range, 1, HalfSize), call.comp)
                 \o sorting_network_sorter(
                        SubSeq(range, HalfSize + 1, NetSize), call.comp)
    /\ pc' = "merge"
    /\ UNCHANGED <<input, call, trace>>

\* sorting_network_sorter_impl<31u>::operator(), one swap_if of the merge.
Sort31Merge ==
    /\ pc = "merge"
    /\ LET pair == comparator(call.at)
           swapped == swap_if(range, pair[1], pair[2], call.comp)
           at == next_comparator(call.at, swapped # range)
       IN  /\ range' = swapped
           /\ trace' = Append(trace, pair)
           /\ call' = [call EXCEPT !.at = at]
           /\ pc' = IF at > Len(merge31) THEN "done" ELSE "merge"
    /\ UNCHANGED input

NextNet == Sort2 \/ Sort31Halves \/ Sort31Merge

SpecNet == InitNet /\ [][NextNet]_vars

\* C5: the size-31 network, its size-16 and size-15 sub-networks having left
\* first[0..15] and first[16..30] sorted, leaves the whole range with
\* compare(first[i+1], first[i]) false for every i; the size-2 network leaves
\* compare(first[1], first[0]) false.
C5_NetworksSort == Done => is_sorted(range, call.comp)

\* C5 witness: the size-31 network sorted the descending permutation of
\* 0 .. 30, whose two sorted halves the merge had to interleave.
C5_Witness ==
    /\ Done
    /\ Len(range) = NetSize
    /\ call.comp = "int_less"
    /\ input = [i \in 1 .. NetSize |-> NetSize - i]
    /\ range = [i \in 1 .. NetSize |-> i - 1]

\* C8: the pairs compared, and their order, are the same for every input:
\* after k compare-and-swaps a network has compared the first k pairs of its
\* fixed sequence, whatever the elements and the outcomes so far; a finished
\* run has compared all of them.
C8_FixedComparisonSequence ==
    /\ Len(range) = 2 => trace = (IF Done THEN <<(<<0, 1>>)>> ELSE <<>>)
    /\ Len(range) = NetSize =>
        /\ Len(trace) <= Len(merge31)
        /\ trace = SubSeq(merge31, 1, Len(trace))
        /\ Done => Len(trace) = Len(merge31)

\* C8 witness: the size-31 network finished on an input on which some
\* compare-and-swaps swapped and others did not.
C8_Witness ==
    /\ Done
    /\ Len(range) = NetSize
    /\ Len(trace) = Len(merge31)
    /\ range # input
    /\ input = [i \in 1 .. NetSize |-> (7 * i) % NetSize]

\* ------------------------------------------------ self_sort_adapter

\* The member function is left with an empty body.
sort_nothing(elements) == elements

\* non_comparison_self_sortable::sort(): elements.sort(), std::list's sort
\* by operator<.
sort(elements) == insertion_sort(elements, Len(elements), "int_less")

\* quick_sorter, the fallback sorter wrapped by the adapter of the second
\* section: a comparison sort.
quick_sorter(elements, compare) == insertion_sort(elements, Len(elements), compare)

\* self_sort_adapter: the collection's own sort() when no comparator is
\* given, the wrapped fallback sorter when one is.
self_sort_adapter(elements, compare) ==
    IF compare = "none"
    THEN [out |-> sort(elements), used |-> "sort method"]
    ELSE [out |-> quick_sorter(elements, compare), used |-> "fallback sorter"]

\* The collections of the test: the numbers 0 .. n-1, shuffled.
Shuffled(n) ==
    {f \in [1 .. n -> 0 .. (n - 1)] : \A i, j \in 1 .. n : f[i] = f[j] => i = j}

InitSelf ==
    /\ range \in UNION {Shuffled(n) : n \in 0 .. MaxColl}
    /\ input = range
    /\ pc = "start"
    /\ call = [comp |-> "none"]
    /\ trace = ""

Sorted(r, compare) ==
    /\ range' = r.out
    /\ trace' = r.used
    /\ call' = [comp |-> compare]
    /\ pc' = "done"
    /\ UNCHANGED input

\* SECTION "without a comparator": cppsort::sort(collection, sorter{})
SortWithoutComparator ==
    /\ pc = "start"
    /\ Sorted(self_sort_adapter(range, "none"), "none")

\* SECTION "with a comparator":
\* cppsort::sort(collection, sorter{}, std::less<>{})
SortWithComparator ==
    /\ pc = "start"
    /\ Sorted(self_sort_adapter(range, "int_less"), "int_less")

NextSelf == SortWithoutComparator \/ SortWithComparator

SpecSelf == InitSelf /\ [][NextSelf]_vars

\* C7: sorting the self-sortable collection through self_sort_adapter leaves
\* it sorted in ascending order in both cases; without a comparator the
\* collection's own sort() was used, with one the wrapped fallback sorter.
C7_SelfSortSorted ==
    Done =>
        /\ is_sorted(range, "int_less")
        /\ call.comp = "none" => trace = "sort method"
        /\ call.comp # "none" => trace = "fallback sorter"

\* C7 witness: a shuffled collection of the largest size was sorted by its
\* own sort() method.
C7_Witness ==
    /\ Done
    /\ call.comp = "none"
    /\ trace = "sort method"
    /\ Len(input) = MaxColl
    /\ range # input

====
